---- MODULE Spec2Model ----
(***************************************************************************)
(* A model of file_structure.py: the FileStructure parser, the command    *)
(* engine FileStructure.do() and the addressing operators __getitem__ and *)
(* __truediv__, over a small filesystem.                                  *)
(*                                                                         *)
(* A file name is a sequence of characters, a path a sequence of names    *)
(* (its components below the working directory, which always exists).     *)
(* A line of the DSL is a record: its number of leading spaces and its    *)
(* already tokenised content (a name, a list of names or a structure      *)
(* command, and the trailing file command).                               *)
(***************************************************************************)
EXTENDS Integers, Sequences, FiniteSets, TLC

VARIABLES
    text,      \* the lines given to FileStructure(...)
    fs,        \* the filesystem: [dirs |-> set of paths, files |-> set of paths]
    phase,     \* "new" before __init__, "built" once it has returned, "raised" when it raised
    tree,      \* the FileStructure object built by __init__ (NoNode before)
    ran,       \* positions of the FileStructure nodes whose commands_run is True
    op,        \* the last thing that touched the filesystem: "none", "init", "do", "env"
    before,    \* the filesystem and the commands_run flags when the last do() started
    log,       \* what the last do() of the root did, in order
    status,    \* how the last do() of the root ended: "ok", "assert", "exit", "oserror"
    result     \* what the last __getitem__ / __truediv__ returned or raised

vars == <<text, fs, phase, tree, ran, op, before, log, status, result>>

-----------------------------------------------------------------------------
(* Bounds of the model *)

\* the most confirmation prompts the operator answers affirmatively in one run
MaxYes == 2
\* the most names in one bracketed list
MaxList == 2

\* the most leading spaces of a line in the texts for the indentation rules
MaxSp == 6

-----------------------------------------------------------------------------
(* Names, paths, commands *)

NoCmd == "NONE"

\* FileCommand
FileCommand ==
    {"PRESENT", "ABSENT", "PRESENT_BUT_REMOVE", "PRESENT_BUT_RECREATE",
     "ABSENT_BUT_CREATE", "CREATE", "CREATE_IF_ABSENT"}

\* FileStructureCommand
FileStructureCommand == {"THAT_IS_ALL", "REMOVE_EVERYTHING_ELSE"}

Max(S) == CHOOSE x \in S : \A y \in S : y <= x

\* os.path.splitext(name)[1] # "": the last dot of the name has a character
\* other than a dot before it
HasExt(name) ==
    LET dots == {i \in 1..Len(name) : name[i] = "."}
    IN  /\ dots # {}
        /\ \E j \in 1..(Max(dots) - 1) : name[j] # "."

\* _is_seemingly_dir: decided by the name alone, the disk is not looked at
IsSeeminglyDir(path) == ~HasExt(path[Len(path)])

Parent(p) == SubSeq(p, 1, Len(p) - 1)

IsPrefix(p, q) == Len(p) <= Len(q) /\ SubSeq(q, 1, Len(p)) = p

-----------------------------------------------------------------------------
(* The filesystem (pathlib / os / shutil) *)

Exists(f, p) == p \in f.dirs \/ p \in f.files

IsDir(f, p) == p \in f.dirs

\* os.listdir(p) joined to p
ListDir(f, p) == {q \in f.dirs \cup f.files : Len(q) = Len(p) + 1 /\ IsPrefix(p, q)}

\* the working directory (the empty path) always exists
DirOk(f, p) == p = <<>> \/ p \in f.dirs

\* os.rmdir / shutil.rmtree / os.remove: the entry and all below it
RemoveTree(f, p) ==
    [dirs  |-> {q \in f.dirs : ~IsPrefix(p, q)},
     files |-> {q \in f.files : ~IsPrefix(p, q)}]

\* os.makedirs(p) succeeds iff no component of p is there as a file and p is not there
CanMakeDirs(f, p) ==
    /\ ~Exists(f, p)
    /\ \A k \in 1..Len(p) : SubSeq(p, 1, k) \notin f.files

MakeDirs(f, p) ==
    [f EXCEPT !.dirs = @ \cup {SubSeq(p, 1, k) : k \in 1..Len(p)}]

\* open(p, "w") succeeds iff the parent is a directory and p is no directory
CanOpenW(f, p) == DirOk(f, Parent(p)) /\ p \notin f.dirs

OpenW(f, p) == [f EXCEPT !.files = @ \cup {p}]

-----------------------------------------------------------------------------
(* The state of one run of do(): the filesystem, the log, how the run      *)
(* stands, the affirmative answers the operator still gives, and the       *)
(* commands_run flags.                                                     *)

\* one entry of the log: kind is "scmd" (a FileStructureCommand.run call),
\* "cmd" (a FileCommand.run call) or "remove" (a _remove call); at is the
\* position of the FileStructure node in the tree, idx is -1 for the node's
\* structure command, 0 for its own command and i for its i-th child;
\* pre and post are the filesystem before and after the call; st is how the
\* call ended.
Event(kind, at, idx, cmd, path, pre, post, st) ==
    [kind |-> kind, at |-> at, idx |-> idx, cmd |-> cmd, path |-> path,
     pre |-> pre, post |-> post, st |-> st]

Logged(s0, s, kind, at, idx, cmd, path) ==
    [s EXCEPT !.log = Append(@, Event(kind, at, idx, cmd, path, s0.fs, s.fs, s.status))]

\* _remove, without the log entry
RemoveBody(s, path, pr) ==
    IF IsDir(s.fs, path)
    THEN IF ListDir(s.fs, path) = {}
         THEN [s EXCEPT !.fs = RemoveTree(@, path)]
         ELSE IF pr
              THEN IF s.yes > 0
                   THEN [s EXCEPT !.fs = RemoveTree(@, path), !.yes = @ - 1]
                   ELSE [s EXCEPT !.status = "exit"]
              ELSE s
    ELSE IF path \in s.fs.files
         THEN [s EXCEPT !.fs = RemoveTree(@, path)]
         ELSE [s EXCEPT !.status = "oserror"]

\* _remove(path, prompt), called for step (at, idx)
Remove(s, path, pr, at, idx) ==
    Logged(s, RemoveBody(s, path, pr), "remove", at, idx, "remove", path)

\* (_absent_but_create that asserts the absence and creates nothing)
AbsentButAssert(s, path) ==
    IF Exists(s.fs, path) THEN [s EXCEPT !.status = "assert"] ELSE s

\* _absent_but_create(path)
AbsentButCreate(s, path) ==
    IF Exists(s.fs, path)
    THEN [s EXCEPT !.status = "assert"]
    ELSE IF IsSeeminglyDir(path)
         THEN IF CanMakeDirs(s.fs, path)
              THEN [s EXCEPT !.fs = MakeDirs(@, path)]
              ELSE [s EXCEPT !.status = "oserror"]
         ELSE IF CanOpenW(s.fs, path)
              THEN [s EXCEPT !.fs = OpenW(@, path)]
              ELSE [s EXCEPT !.status = "oserror"]

\* _present_but_remove(path, prompt)
PresentButRemove(s, path, pr, at, idx) ==
    IF ~Exists(s.fs, path)
    THEN [s EXCEPT !.status = "assert"]
    ELSE Remove(s, path, pr, at, idx)

\* a statement that follows another: skipped once an exception is under way
Then(s, t) == IF s.status = "ok" THEN t ELSE s

\* FileCommand.run(file_command, path, prompt), without the log entry
FileCommandRun(s, cmd, path, pr, at, idx) ==
    CASE cmd = "PRESENT" ->
            IF Exists(s.fs, path) THEN s ELSE [s EXCEPT !.status = "assert"]
      [] cmd = "ABSENT" ->
            IF ~Exists(s.fs, path) THEN s ELSE [s EXCEPT !.status = "assert"]
      [] cmd = "PRESENT_BUT_REMOVE" ->
            PresentButRemove(s, path, pr, at, idx)
      [] cmd = "PRESENT_BUT_RECREATE" ->
            LET s1 == PresentButRemove(s, path, pr, at, idx)
            IN  Then(s1, AbsentButCreate(s1, path))
      [] cmd = "ABSENT_BUT_CREATE" ->
            AbsentButCreate(s, path)
      [] cmd = "CREATE" ->
            LET s1 == IF Exists(s.fs, path)
                      THEN PresentButRemove(s, path, pr, at, idx)
                      ELSE s
            IN  Then(s1, AbsentButCreate(s1, path))
      [] cmd = "CREATE_IF_ABSENT" ->
            IF ~Exists(s.fs, path) THEN AbsentButCreate(s, path) ELSE s
      [] OTHER -> [s EXCEPT !.status = "assert"]

RunFileCommand(s, cmd, path, pr, at, idx) ==
    Logged(s, FileCommandRun(s, cmd, path, pr, at, idx), "cmd", at, idx, cmd, path)

\* the order in which a set of sibling paths is iterated: Python leaves the
\* iteration order of a set open; order is a sequence of all names and the
\* siblings come in the order of their last component in it
RECURSIVE InOrder(_, _)
InOrder(paths, order) ==
    IF order = <<>> THEN <<>>
    ELSE LET here == {p \in paths : p[Len(p)] = Head(order)}
         IN  (IF here = {} THEN <<>> ELSE <<CHOOSE p \in here : TRUE>>)
             \o InOrder(paths, Tail(order))

\* everything_else = all_files.difference(paths)
\* (the same without the difference: every entry counts as undeclared)
EverythingElseAll(f, path, paths) == ListDir(f, path)

EverythingElse(f, path, paths) == ListDir(f, path) \ paths

RECURSIVE RemoveAll(_, _, _, _)
RemoveAll(s, todo, pr, at) ==
    IF todo = <<>> \/ s.status # "ok" THEN s
    ELSE RemoveAll(Remove(s, Head(todo), pr, at, -1), Tail(todo), pr, at)

\* FileStructureCommand.run(file_structure_command, path, paths, prompt),
\* without the log entry; os.listdir raises when path is not a directory
FileStructureCommandRun(s, scmd, path, paths, pr, at, order) ==
    IF ~Exists(s.fs, path) THEN s
    ELSE IF ~IsDir(s.fs, path) THEN [s EXCEPT !.status = "oserror"]
    ELSE LET everything_else == EverythingElse(s.fs, path, paths)
         IN  CASE scmd = "THAT_IS_ALL" ->
                     IF everything_else = {} THEN s ELSE [s EXCEPT !.status = "assert"]
               [] scmd = "REMOVE_EVERYTHING_ELSE" ->
                     RemoveAll(s, InOrder(everything_else, order), pr, at)
               [] OTHER -> [s EXCEPT !.status = "assert"]

RunStructureCommand(s, scmd, path, paths, pr, at, order) ==
    Logged(s, FileStructureCommandRun(s, scmd, path, paths, pr, at, order),
           "scmd", at, -1, scmd, path)

-----------------------------------------------------------------------------
(* The parser: FileStructure.__init__ and _process_lines                   *)

NoNode == [none |-> TRUE]

Bad == [ok |-> FALSE, node |-> NoNode]

\* a child of a FileStructure: a Path or a nested FileStructure
PathChild(p) == [kind |-> "path", path |-> p, node |-> NoNode]

NodeChild(n) == [kind |-> "fs", path |-> n.main_dir, node |-> n]

\* a line of the text: kind is "name", "list" or "scmd"
NameLine(sp, name, cmd) ==
    [sp |-> sp, kind |-> "name", names |-> <<name>>, cmd |-> cmd, scmd |-> NoCmd]

ListLine(sp, names, cmd) ==
    [sp |-> sp, kind |-> "list", names |-> names, cmd |-> cmd, scmd |-> NoCmd]

ScmdLine(sp, scmd) ==
    [sp |-> sp, kind |-> "scmd", names |-> <<>>, cmd |-> NoCmd, scmd |-> scmd]

\* calc_num_indents; -1 stands for a failed assertion
calc_num_indents(line, num_leading_spaces, indent_length, prev_num_indents, prev_is_ordinary_file) ==
    LET num_spaces == line.sp - num_leading_spaces
        num_indents == num_spaces \div indent_length
    IN  IF num_spaces <= 0 THEN -1
        ELSE IF num_spaces % indent_length # 0 THEN -1
        ELSE IF prev_is_ordinary_file /\ num_indents > prev_num_indents THEN -1
        ELSE IF ~prev_is_ordinary_file /\ num_indents > prev_num_indents + 1 THEN -1
        ELSE IF num_indents = 0 THEN -1
        ELSE num_indents

\* process_line_block: the lines after line_no that are indented deeper
\* than num_indents, and the number of the first line that is not
RECURSIVE process_line_block(_, _, _, _, _)
process_line_block(lines, line_no, num_indents, num_leading_spaces, indent_length) ==
    LET next == line_no + 1
    IN  IF next > Len(lines)
        THEN [block |-> <<>>, line_no |-> next]
        ELSE LET this_num_indents == (lines[next].sp - num_leading_spaces) \div indent_length
             IN  IF this_num_indents <= num_indents
                 THEN [block |-> <<>>, line_no |-> next]
                 ELSE LET rest == process_line_block(lines, next, num_indents,
                                                     num_leading_spaces, indent_length)
                      IN  [block |-> <<lines[next]>> \o rest.block, line_no |-> rest.line_no]

\* self.list_dir.append / self.list_dir_file_commands.append / self.dict_dir[filename] = ...
\* dict_dir maps a filename to the index in list_dir of the object it holds
AddChild(node, filename, child, cmd) ==
    [node EXCEPT !.list_dir = Append(@, child),
                 !.list_dir_file_commands = Append(@, cmd),
                 !.dict_dir = (filename :> (Len(node.list_dir) + 1)) @@ @]

RECURSIVE FileStructureInit(_, _)
RECURSIVE ExpandDirs(_, _, _, _, _, _)
RECURSIVE ProcessLoop(_, _, _, _, _, _, _)

\* the nested FileStructure of directory new_path with its block of lines
Nested(new_path, cmd, block, sp, pr) ==
    FileStructureInit(<<NameLine(sp, new_path, cmd)>> \o block, pr)

\* (the list branch building every directory of the list at the first name's path)
RECURSIVE ExpandDirsShared(_, _, _, _, _, _)
ExpandDirsShared(node, filenames, cmd, block, sp, i) ==
    IF i > Len(filenames) THEN [ok |-> TRUE, node |-> node]
    ELSE LET sub == Nested(node.main_dir \o filenames[1], cmd, block, sp, node.prompt)
         IN  IF ~sub.ok THEN Bad
             ELSE ExpandDirsShared(AddChild(node, filenames[i], NodeChild(sub.node), NoCmd),
                                   filenames, cmd, block, sp, i + 1)

\* the for loop of the list branch: one nested FileStructure per name
ExpandDirs(node, filenames, cmd, block, sp, i) ==
    IF i > Len(filenames) THEN [ok |-> TRUE, node |-> node]
    ELSE LET sub == Nested(node.main_dir \o filenames[i], cmd, block, sp, node.prompt)
         IN  IF ~sub.ok THEN Bad
             ELSE ExpandDirs(AddChild(node, filenames[i], NodeChild(sub.node), NoCmd),
                             filenames, cmd, block, sp, i + 1)

RECURSIVE ExpandFiles(_, _, _, _)
ExpandFiles(node, filenames, cmd, i) ==
    IF i > Len(filenames) THEN node
    ELSE ExpandFiles(AddChild(node, filenames[i], PathChild(node.main_dir \o filenames[i]), cmd),
                     filenames, cmd, i + 1)

\* process_line: [ok, node, line_no, is_ordinary_file]
process_line(lines, line_no, node, num_leading_spaces, indent_length) ==
    LET line == lines[line_no]
        blk  == process_line_block(lines, line_no, 1, num_leading_spaces, indent_length)
        sp   == num_leading_spaces + indent_length
        fail == [ok |-> FALSE, node |-> node, line_no |-> line_no, is_ordinary_file |-> FALSE]
    IN  CASE line.kind = "scmd" ->
                IF node.main_dir_file_structure_command # NoCmd THEN fail
                ELSE [ok |-> TRUE,
                      node |-> [node EXCEPT !.main_dir_file_structure_command = line.scmd],
                      line_no |-> line_no + 1, is_ordinary_file |-> TRUE]
          [] line.kind = "list" ->
                LET dirs == {i \in 1..Len(line.names) : IsSeeminglyDir(line.names[i])}
                IN  IF dirs # {} /\ dirs # 1..Len(line.names) THEN fail
                    ELSE IF IsSeeminglyDir(line.names[1])
                    THEN LET r == ExpandDirs(node, line.names, line.cmd, blk.block, sp, 1)
                         IN  IF ~r.ok THEN fail
                             ELSE [ok |-> TRUE, node |-> r.node,
                                   line_no |-> blk.line_no, is_ordinary_file |-> FALSE]
                    ELSE [ok |-> TRUE, node |-> ExpandFiles(node, line.names, line.cmd, 1),
                          line_no |-> line_no + 1, is_ordinary_file |-> TRUE]
          [] OTHER ->
                LET filename == line.names[1]
                    new_path == node.main_dir \o filename
                IN  IF IsSeeminglyDir(new_path)
                    THEN LET sub == Nested(new_path, line.cmd, blk.block, sp, node.prompt)
                         IN  IF ~sub.ok THEN fail
                             ELSE [ok |-> TRUE,
                                   node |-> AddChild(node, filename, NodeChild(sub.node), NoCmd),
                                   line_no |-> blk.line_no, is_ordinary_file |-> FALSE]
                    ELSE [ok |-> TRUE,
                          node |-> AddChild(node, filename, PathChild(new_path), line.cmd),
                          line_no |-> line_no + 1, is_ordinary_file |-> TRUE]

\* the while loop of _process_lines
ProcessLoop(lines, line_no, node, num_leading_spaces, indent_length, prev_num_indents, prev_is_ordinary_file) ==
    IF line_no > Len(lines) THEN [ok |-> TRUE, node |-> node]
    ELSE LET num_indents == calc_num_indents(lines[line_no], num_leading_spaces, indent_length,
                                             prev_num_indents, prev_is_ordinary_file)
         IN  IF num_indents # 1 THEN Bad
             ELSE LET r == process_line(lines, line_no, node, num_leading_spaces, indent_length)
                  IN  IF ~r.ok THEN Bad
                      ELSE ProcessLoop(lines, r.line_no, r.node, num_leading_spaces,
                                       indent_length, num_indents, r.is_ordinary_file)

\* _process_lines
ProcessLines(lines, node) ==
    LET indent_length == lines[2].sp - lines[1].sp
        num_leading_spaces == lines[1].sp
    IN  IF indent_length <= 0 THEN Bad
        ELSE ProcessLoop(lines, 2, node, num_leading_spaces, indent_length, 0, FALSE)

\* FileStructure.__init__(structure, lazy_commands=True, prompt): the parse
FileStructureInit(lines, pr) ==
    LET first_line == lines[1]
    IN  IF first_line.kind # "name" THEN Bad
        ELSE IF ~IsSeeminglyDir(first_line.names[1]) THEN Bad
        ELSE LET node == [main_dir |-> first_line.names[1],
                          main_dir_file_command |-> first_line.cmd,
                          main_dir_file_structure_command |-> NoCmd,
                          list_dir |-> <<>>,
                          list_dir_file_commands |-> <<>>,
                          dict_dir |-> <<>>,
                          prompt |-> pr]
             IN  IF Len(lines) > 1 THEN ProcessLines(lines, node)
                 ELSE [ok |-> TRUE, node |-> node]

-----------------------------------------------------------------------------
(* The command engine: FileStructure.do()                                  *)

\* paths = [child if isinstance(child, Path) else child.path() for child in self.children()]
ChildPaths(node) == {node.list_dir[i].path : i \in 1..Len(node.list_dir)}

RECURSIVE Do(_, _, _, _)
RECURSIVE DoChildren(_, _, _, _, _)

\* (the for loop going on to the next child after a failed command)
RECURSIVE DoChildrenOn(_, _, _, _, _)
DoChildrenOn(s, node, at, i, order) ==
    IF i > Len(node.list_dir) THEN s
    ELSE LET child == node.list_dir[i]
             file_command == node.list_dir_file_commands[i]
             s1 == IF child.kind = "path"
                   THEN IF file_command # NoCmd
                        THEN RunFileCommand(s, file_command, child.path, node.prompt, at, i)
                        ELSE s
                   ELSE Do(s, child.node, Append(at, i), order)
         IN  DoChildrenOn(s1, node, at, i + 1, order)

\* the for loop of do() from child i on
DoChildren(s, node, at, i, order) ==
    IF i > Len(node.list_dir) \/ s.status # "ok" THEN s
    ELSE LET child == node.list_dir[i]
             file_command == node.list_dir_file_commands[i]
             s1 == IF child.kind = "path"
                   THEN IF file_command # NoCmd
                        THEN RunFileCommand(s, file_command, child.path, node.prompt, at, i)
                        ELSE s
                   ELSE IF file_command # NoCmd
                        THEN [s EXCEPT !.status = "assert"]
                        ELSE Do(s, child.node, Append(at, i), order)
         IN  DoChildren(s1, node, at, i + 1, order)

\* (do() with the node's own command run before its structure command)
DoOwnFirst(s, node, at, order) ==
    IF at \in s.ran THEN s
    ELSE LET s1 == IF node.main_dir_file_command # NoCmd
                   THEN RunFileCommand(s, node.main_dir_file_command, node.main_dir,
                                       node.prompt, at, 0)
                   ELSE s
             s2 == Then(s1, IF node.main_dir_file_structure_command # NoCmd
                            THEN RunStructureCommand(s1, node.main_dir_file_structure_command,
                                                     node.main_dir, ChildPaths(node),
                                                     node.prompt, at, order)
                            ELSE s1)
             s3 == Then(s2, DoChildren(s2, node, at, 1, order))
         IN  Then(s3, [s3 EXCEPT !.ran = @ \cup {at}])

\* (do() that does not look at commands_run)
DoAgain(s, node, at, order) ==
    LET s1 == IF node.main_dir_file_structure_command # NoCmd
              THEN RunStructureCommand(s, node.main_dir_file_structure_command,
                                       node.main_dir, ChildPaths(node), node.prompt, at, order)
              ELSE s
        s2 == Then(s1, IF node.main_dir_file_command # NoCmd
                       THEN RunFileCommand(s1, node.main_dir_file_command, node.main_dir,
                                           node.prompt, at, 0)
                       ELSE s1)
        s3 == Then(s2, DoChildren(s2, node, at, 1, order))
    IN  Then(s3, [s3 EXCEPT !.ran = @ \cup {at}])

\* (do() that takes back, when it fails, the commands_run of the nested
\* directories it had finished)
DoForgetful(s, node, at, order) ==
    IF at \in s.ran THEN s
    ELSE LET s1 == IF node.main_dir_file_structure_command # NoCmd
                   THEN RunStructureCommand(s, node.main_dir_file_structure_command,
                                            node.main_dir, ChildPaths(node), node.prompt, at, order)
                   ELSE s
             s2 == Then(s1, IF node.main_dir_file_command # NoCmd
                            THEN RunFileCommand(s1, node.main_dir_file_command, node.main_dir,
                                                node.prompt, at, 0)
                            ELSE s1)
             s3 == Then(s2, DoChildren(s2, node, at, 1, order))
         IN  IF s3.status = "ok" THEN [s3 EXCEPT !.ran = @ \cup {at}]
             ELSE [s3 EXCEPT !.ran = s.ran]

\* do() of the FileStructure at position at
Do(s, node, at, order) ==
    IF at \in s.ran THEN s
    ELSE LET s1 == IF node.main_dir_file_structure_command # NoCmd
                   THEN RunStructureCommand(s, node.main_dir_file_structure_command,
                                            node.main_dir, ChildPaths(node), node.prompt, at, order)
                   ELSE s
             s2 == Then(s1, IF node.main_dir_file_command # NoCmd
                            THEN RunFileCommand(s1, node.main_dir_file_command, node.main_dir,
                                                node.prompt, at, 0)
                            ELSE s1)
             s3 == Then(s2, DoChildren(s2, node, at, 1, order))
         IN  Then(s3, [s3 EXCEPT !.ran = @ \cup {at}])

-----------------------------------------------------------------------------
(* The addressing operators: __getitem__ and __truediv__                   *)

\* what a lookup gives: a Path, a FileStructure, or the exception it raised
PathValue(p) == [kind |-> "path", path |-> p, node |-> NoNode]

NodeValue(n) == [kind |-> "node", path |-> n.main_dir, node |-> n]

Raised(e) == [kind |-> e, path |-> <<>>, node |-> NoNode]

\* _as_path
AsPath(v) == IF v.kind \in {"path", "node"} THEN PathValue(v.path) ELSE v

\* the object dict_dir holds for a filename
DictDir(node, filename) ==
    LET child == node.list_dir[node.dict_dir[filename]]
    IN  IF child.kind = "fs" THEN NodeValue(child.node) ELSE PathValue(child.path)

RECURSIVE GetItem(_, _)
RECURSIVE GetItemLoop(_, _)

\* v[filename]: a Path has no __getitem__
Subscript(v, filename) ==
    CASE v.kind = "node" -> GetItem(v.node, <<filename>>)
      [] v.kind = "path" -> Raised("TypeError")
      [] OTHER -> v

\* for filename in filenames: path_or_file_structure = path_or_file_structure[filename]
GetItemLoop(v, filenames) ==
    IF filenames = <<>> THEN v
    ELSE GetItemLoop(Subscript(v, Head(filenames)), Tail(filenames))

\* FileStructure.__getitem__(key): key is the sequence of the names between
\* the slashes, leading and trailing slashes removed
GetItem(node, key) ==
    IF key = <<>> THEN PathValue(node.main_dir)
    ELSE IF Len(key) > 1
         THEN AsPath(GetItemLoop(NodeValue(node), key))
         ELSE IF <<key[1]>> \notin DOMAIN node.dict_dir
              THEN Raised("KeyError")
              ELSE AsPath(DictDir(node, <<key[1]>>))

\* FileStructure.__truediv__(other)
TrueDiv(node, other) == GetItem(node, other)

-----------------------------------------------------------------------------
(* Inputs *)

T  == <<"T">>
a  == <<"a">>
b  == <<"b">>
c  == <<"c">>
xt == <<"x", ".", "t">>
zt == <<"z", ".", "t">>

AnyCmd == FileCommand \cup {NoCmd}

AnyScmd == FileStructureCommand \cup {NoCmd}

\* a structure command line at sp spaces, when there is one
Opt(sp, scmd) == IF scmd = NoCmd THEN <<>> ELSE <<ScmdLine(sp, scmd)>>

\*  T cr
\*    a ca
\*      x.t cx
\*      sa
\*    x.t
\*    sr
TextNested(cr, ca, cx, sa, sr) ==
    <<NameLine(0, <<T>>, cr), NameLine(2, <<a>>, ca), NameLine(4, <<xt>>, cx)>>
    \o Opt(4, sa) \o <<NameLine(2, <<xt>>, NoCmd)>> \o Opt(2, sr)

DirNames == <<a, b, c>>

\*  T cr
\*    [a, b] cl
\*      x.t cx
\*    sr
TextList(n, cr, cl, cx, sr) ==
    <<NameLine(0, <<T>>, cr),
      ListLine(2, [i \in 1..n |-> <<DirNames[i]>>], cl),
      NameLine(4, <<xt>>, cx)>>
    \o Opt(2, sr)

\*  T
\*    [x.t, z.t] cl
\*    a cl
TextFiles(cl) ==
    <<NameLine(0, <<T>>, NoCmd), ListLine(2, <<<<xt>>, <<zt>>>>, cl), NameLine(2, <<a>>, cl)>>

\*  T
\*    x.t c1
\*    x.t c2
TextTwice(c1, c2) ==
    <<NameLine(0, <<T>>, NoCmd), NameLine(2, <<xt>>, c1), NameLine(2, <<xt>>, c2)>>

\* the structure commands of the inner and of the main directory
ScmdPairs ==
    {<<NoCmd, NoCmd>>, <<"THAT_IS_ALL", NoCmd>>, <<"REMOVE_EVERYTHING_ELSE", NoCmd>>,
     <<NoCmd, "THAT_IS_ALL">>, <<NoCmd, "REMOVE_EVERYTHING_ELSE">>}

Texts ==
    {TextNested(cr, ca, cx, ss[1], ss[2]) :
        cr \in {NoCmd, "CREATE_IF_ABSENT"}, ca \in AnyCmd,
        cx \in {NoCmd, "ABSENT_BUT_CREATE"}, ss \in ScmdPairs}
    \cup {TextList(n, "CREATE_IF_ABSENT", cl, cx, sr) :
        n \in 1..MaxList, cl \in AnyCmd,
        cx \in {NoCmd, "CREATE_IF_ABSENT"}, sr \in {NoCmd, "REMOVE_EVERYTHING_ELSE"}}
    \cup {TextFiles(cl) : cl \in AnyCmd}
    \cup {TextTwice("ABSENT_BUT_CREATE", "PRESENT_BUT_REMOVE")}

\* the names of lines 2 to 4 of the texts for the indentation rules:
\* two directories and a file, a directory and two files, a file, a
\* directory and a file
Shapes == {<<a, b, xt>>, <<a, xt, zt>>, <<xt, a, zt>>}

\*  T
\*  <sps[1] spaces>names[1]
\*  <sps[2] spaces>names[2]
\*  <sps[3] spaces>names[3]
Indented(names, sps) ==
    <<NameLine(0, <<T>>, NoCmd)>>
    \o [i \in 1..Len(names) |-> NameLine(sps[i], <<names[i]>>, NoCmd)]

IndentTexts == {Indented(names, sps) : names \in Shapes, sps \in [1..3 -> 0..MaxSp]}

\* what may be on the disk
DirCands == {<<T>>, <<T, a>>, <<T, b>>}

FileCands == {<<T>>, <<T, a>>, <<T, xt>>, <<T, a, xt>>, <<T, a, zt>>, <<T, b, xt>>}

Consistent(f) ==
    /\ f.dirs \cap f.files = {}
    /\ \A p \in f.dirs \cup f.files : DirOk(f, Parent(p))

FsStates == {f \in [dirs : SUBSET DirCands, files : SUBSET FileCands] : Consistent(f)}

NameOrder == <<a, b, c, xt, zt>>

RECURSIVE Reverse(_)
Reverse(q) == IF q = <<>> THEN <<>> ELSE Append(Reverse(Tail(q)), Head(q))

Orders == {NameOrder, Reverse(NameOrder)}

Keys == {<<>>} \cup {<<n>> : n \in {a, b, xt}} \cup {<<n, m>> : n \in {a, xt}, m \in {xt, zt}}

-----------------------------------------------------------------------------
(* The state machine *)

NoResult == [op |-> "none", key |-> <<>>, val |-> Raised("none")]

EmptyFs == [dirs |-> {}, files |-> {}]

NoBefore == [fs |-> EmptyFs, ran |-> {}, status |-> "ok"]

Start ==
    /\ phase = "new"
    /\ tree = NoNode
    /\ ran = {}
    /\ op = "none"
    /\ before = NoBefore
    /\ log = <<>>
    /\ status = "ok"
    /\ result = NoResult

\* any of the texts, on an empty disk
Init ==
    /\ text \in Texts
    /\ fs = EmptyFs
    /\ Start

\* any of the texts, on any disk
InitEngine ==
    /\ text \in Texts
    /\ fs \in FsStates
    /\ Start

\* any of the texts for the indentation rules, on an empty disk
InitParse ==
    /\ text \in IndentTexts
    /\ fs = EmptyFs
    /\ Start

\* the run of do() on the root, from the current state
Run(node, yes, order) ==
    Do([fs |-> fs, log |-> <<>>, status |-> "ok", yes |-> yes, ran |-> ran], node, <<>>, order)

Apply(s) ==
    /\ fs' = s.fs
    /\ log' = s.log
    /\ status' = s.status
    /\ ran' = s.ran
    /\ before' = [fs |-> fs, ran |-> ran, status |-> status]

Answers(pr) == IF pr THEN 0..MaxYes ELSE {0}

\* FileStructure(structure, lazy_commands, prompt)
Construct(lazy_commands, pr, yes, order) ==
    /\ phase = "new"
    /\ LET r == FileStructureInit(text, pr)
       IN  IF ~r.ok
           THEN /\ phase' = "raised"
                /\ UNCHANGED <<tree, fs, log, status, ran, before, op>>
           ELSE IF lazy_commands
           THEN /\ phase' = "built"
                /\ tree' = r.node
                /\ UNCHANGED <<fs, log, status, ran, before, op>>
           ELSE LET s == Run(r.node, yes, order)
                IN  /\ Apply(s)
                    /\ op' = "init"
                    /\ tree' = r.node
                    /\ phase' = IF s.status = "ok" THEN "built" ELSE "raised"
    /\ UNCHANGED <<text, result>>

\* file_structure.do(), on an object whose constructor returned; after
\* exit(1) the program is gone
DoCall(yes, order) ==
    /\ phase = "built"
    /\ status # "exit"
    /\ Apply(Run(tree, yes, order))
    /\ op' = "do"
    /\ UNCHANGED <<text, phase, tree, result>>

\* something else changes the disk after a completed run or after a run
\* that failed an assertion: all of the main directory goes, or a file
\* appears in it
Env ==
    /\ phase = "built"
    /\ <<>> \in ran \/ status = "assert"
    /\ \/ fs' = RemoveTree(fs, tree.main_dir)
       \/ /\ IsDir(fs, tree.main_dir)
          /\ fs' = OpenW(fs, Append(tree.main_dir, zt))
    /\ fs' # fs
    /\ op' = "env"
    /\ UNCHANGED <<text, phase, tree, ran, before, log, status, result>>

\* file_structure[key]
Index(key) ==
    /\ phase = "built"
    /\ status # "exit"
    /\ result' = [op |-> "getitem", key |-> key, val |-> GetItem(tree, key)]
    /\ UNCHANGED <<text, fs, phase, tree, ran, op, before, log, status>>

\* file_structure / key
Divide(key) ==
    /\ phase = "built"
    /\ status # "exit"
    /\ result' = [op |-> "truediv", key |-> key, val |-> TrueDiv(tree, key)]
    /\ UNCHANGED <<text, fs, phase, tree, ran, op, before, log, status>>

\* file_structure[first][second]
IndexIndex(first, second) ==
    /\ phase = "built"
    /\ status # "exit"
    /\ result' = [op |-> "getitem2", key |-> <<first, second>>,
                  val |-> Subscript(GetItem(tree, <<first>>), second)]
    /\ UNCHANGED <<text, fs, phase, tree, ran, op, before, log, status>>

NextEngine ==
    \/ \E lazy_commands \in BOOLEAN, pr \in BOOLEAN, order \in Orders :
          \E yes \in Answers(pr) : Construct(lazy_commands, pr, yes, order)
    \/ /\ phase = "built"
       /\ \E order \in Orders : \E yes \in Answers(tree.prompt) : DoCall(yes, order)
    \/ Env

Next ==
    \/ NextEngine
    \/ \E key \in Keys : Index(key)
    \/ \E key \in Keys : Divide(key)
    \/ \E key \in {k \in Keys : Len(k) = 2} : IndexIndex(key[1], key[2])

Spec == Init /\ [][Next]_vars

\* the command engine alone, without the lookups
SpecEngine == InitEngine /\ [][NextEngine]_vars

\* the construction alone, on the texts for the indentation rules
NextParse ==
    \E lazy_commands \in BOOLEAN, pr \in BOOLEAN, order \in Orders :
        \E yes \in Answers(pr) : Construct(lazy_commands, pr, yes, order)

SpecParse == InitParse /\ [][NextParse]_vars

-----------------------------------------------------------------------------
(* What the claims speak of *)

\* the FileStructure at position at of the tree
RECURSIVE NodeAt(_, _)
NodeAt(node, at) ==
    IF at = <<>> THEN node ELSE NodeAt(node.list_dir[Head(at)].node, Tail(at))

\* the declared children's own paths: a Leaf's path, a nested Directory's main directory
Declared(node) ==
    {IF node.list_dir[i].kind = "fs" THEN node.list_dir[i].node.main_dir
     ELSE node.list_dir[i].path : i \in 1..Len(node.list_dir)}

\* the command calls of the last run, in order, without the _remove calls inside them
Steps == SelectSeq(log, LAMBDA e : e.kind # "remove")

Removes == SelectSeq(log, LAMBDA e : e.kind = "remove")

\* where a step stands in the declaration: node position, then -1, 0 or the child's index
StepKey(e) == Append(e.at, e.idx)

RECURSIVE LexLess(_, _)
LexLess(p, q) ==
    IF p = <<>> THEN q # <<>>
    ELSE IF q = <<>> THEN FALSE
    ELSE IF Head(p) = Head(q) THEN LexLess(Tail(p), Tail(q))
    ELSE Head(p) < Head(q)

\* every place of the tree that holds a command
RECURSIVE Slots(_, _)
Slots(node, at) ==
    (IF node.main_dir_file_structure_command # NoCmd THEN {Append(at, -1)} ELSE {})
    \cup (IF node.main_dir_file_command # NoCmd THEN {Append(at, 0)} ELSE {})
    \cup UNION {IF node.list_dir[i].kind = "fs"
                THEN Slots(node.list_dir[i].node, Append(at, i))
                ELSE IF node.list_dir_file_commands[i] # NoCmd THEN {Append(at, i)} ELSE {}
                : i \in 1..Len(node.list_dir)}

\* the command and the path the tree holds at the place of a step
AtItsPlace(e) ==
    LET node == NodeAt(tree, e.at)
    IN  CASE e.idx = -1 -> /\ e.kind = "scmd"
                           /\ e.cmd = node.main_dir_file_structure_command
                           /\ e.path = node.main_dir
          [] e.idx = 0  -> /\ e.kind = "cmd"
                           /\ e.cmd = node.main_dir_file_command
                           /\ e.path = node.main_dir
          [] OTHER      -> /\ e.kind = "cmd"
                           /\ node.list_dir[e.idx].kind = "path"
                           /\ e.cmd = node.list_dir_file_commands[e.idx]
                           /\ e.path = node.list_dir[e.idx].path

JustRan == op \in {"init", "do"}

Creating == {"PRESENT_BUT_RECREATE", "ABSENT_BUT_CREATE", "CREATE", "CREATE_IF_ABSENT"}

-----------------------------------------------------------------------------
(* C1: index is type-preserving: for a single-segment key that names a     *)
(* declared child, file_structure[key] is the nested FileStructure itself  *)
(* when the child is a directory and the child's path when it is an        *)
(* ordinary file; file_structure / key is a path in both cases.            *)
C1_IndexKeepsType ==
    (/\ result.op \in {"getitem", "truediv"}
     /\ Len(result.key) = 1
     /\ result.key \in DOMAIN tree.dict_dir)
    => LET child == tree.list_dir[tree.dict_dir[result.key]]
       IN  IF result.op = "getitem" /\ child.kind = "fs"
           THEN result.val = NodeValue(child.node)
           ELSE result.val = PathValue(child.path)

(* C2: a key of two segments a/b, a a declared directory of the root and b *)
(* a declared child of a, is resolved segment by segment:                  *)
(* file_structure["a/b"] is file_structure["a"]["b"], and                  *)
(* file_structure / "a/b" is the path root/a/b, without failing.           *)
C2_TwoSegments ==
    (/\ result.op \in {"getitem", "truediv"}
     /\ Len(result.key) = 2
     /\ <<result.key[1]>> \in DOMAIN tree.dict_dir
     /\ tree.list_dir[tree.dict_dir[<<result.key[1]>>]].kind = "fs"
     /\ <<result.key[2]>> \in
            DOMAIN tree.list_dir[tree.dict_dir[<<result.key[1]>>]].node.dict_dir)
    => /\ result.op = "getitem" =>
              result.val = Subscript(GetItem(tree, <<result.key[1]>>), result.key[2])
       /\ result.op = "truediv" =>
              result.val = PathValue(tree.main_dir \o result.key)

(* C3: REMOVE_EVERYTHING_ELSE never removes a declared child's path: it    *)
(* passes no declared child's path (of a Leaf, of a nested Directory, of a *)
(* directory of a list) to _remove, and every declared child that was on   *)
(* the disk before it is on the disk after it, with all it held.           *)
C3_DeclaredSurvive ==
    \A i \in 1..Len(log) :
        (log[i].kind = "scmd" /\ log[i].cmd = "REMOVE_EVERYTHING_ELSE") =>
            LET declared == Declared(NodeAt(tree, log[i].at))
            IN  /\ \A j \in 1..Len(log) :
                       (/\ log[j].kind = "remove"
                        /\ log[j].at = log[i].at
                        /\ log[j].idx = -1) => log[j].path \notin declared
                /\ \A p \in declared : \A q \in log[i].pre.dirs \cup log[i].pre.files :
                       IsPrefix(p, q) =>
                           /\ q \in log[i].pre.dirs => q \in log[i].post.dirs
                           /\ q \in log[i].pre.files => q \in log[i].post.files

\* a REMOVE_EVERYTHING_ELSE that removed something, beside a declared
\* directory that was there with a file in it and a declared child not yet there
C3_Witness ==
    \E i \in 1..Len(log) :
        /\ log[i].kind = "scmd" /\ log[i].cmd = "REMOVE_EVERYTHING_ELSE"
        /\ log[i].st = "ok"
        /\ log[i].post # log[i].pre
        /\ LET node == NodeAt(tree, log[i].at)
           IN  /\ \E k \in 1..Len(node.list_dir) :
                      /\ node.list_dir[k].kind = "fs"
                      /\ ListDir(log[i].post, node.list_dir[k].node.main_dir) # {}
               /\ \E p \in Declared(node) : ~Exists(log[i].pre, p)

(* C4: in every run the steps come in the order of the declaration: for    *)
(* every directory its structure command, then its own command, then its   *)
(* children in the order declared, a nested directory wholly before the    *)
(* next sibling; each step is the command the tree holds at that place,    *)
(* and a first run that succeeds has done every command of the tree.       *)
C4_DeclarationOrder ==
    /\ \A i \in 1..Len(Steps) : AtItsPlace(Steps[i])
    /\ \A i \in 1..(Len(Steps) - 1) : LexLess(StepKey(Steps[i]), StepKey(Steps[i + 1]))
    /\ (JustRan /\ status = "ok" /\ before.ran = {}) =>
           {StepKey(Steps[i]) : i \in 1..Len(Steps)} = Slots(tree, <<>>)

\* a run that did a structure command, the directory's own command, a
\* nested directory's command and the command of a file in it
C4_Witness ==
    /\ status = "ok"
    /\ \E i, j, k, l \in 1..Len(Steps) :
          /\ i < j /\ j < k /\ k < l
          /\ Steps[i].at = <<>> /\ Steps[i].idx = -1
          /\ Steps[j].at = <<>> /\ Steps[j].idx = 0
          /\ Len(Steps[k].at) = 1 /\ Steps[k].idx = 0
          /\ Steps[l].at = Steps[k].at /\ Steps[l].idx > 0

(* C5: once a run of do() on the structure has succeeded, a later do() on  *)
(* it changes nothing on the disk and does not fail, whatever its commands *)
(* and whatever the disk holds by then.                                    *)
C5_SecondRunNoOp ==
    (op = "do" /\ <<>> \in before.ran) =>
        /\ fs = before.fs
        /\ status = "ok"
        /\ log = <<>>

\* a later do() on a structure whose main directory it would have to create
\* again: the directory has gone from the disk since the first run
C5_Witness ==
    /\ op = "do"
    /\ <<>> \in before.ran
    /\ tree.main_dir_file_command = "CREATE_IF_ABSENT"
    /\ ~Exists(fs, tree.main_dir)

(* C6: a failed assertion ends the run where it fails: the failing command *)
(* is the last one applied, all commands before it succeeded, nothing      *)
(* declared after it is applied, and the disk is left as the commands      *)
(* applied so far made it (nothing is rolled back).                        *)
C6_AbortAtViolation ==
    (JustRan /\ status = "assert") =>
        /\ Steps # <<>>
        /\ Steps[Len(Steps)].st = "assert"
        /\ log[Len(log)] = Steps[Len(Steps)]
        /\ \A i \in 1..(Len(Steps) - 1) : Steps[i].st = "ok"
        /\ Steps[1].pre = before.fs
        /\ \A i \in 1..(Len(Steps) - 1) : Steps[i + 1].pre = Steps[i].post
        /\ fs = Steps[Len(Steps)].post
        /\ \A k \in Slots(tree, <<>>) :
               LexLess(StepKey(Steps[Len(Steps)]), k) =>
                   \A i \in 1..Len(Steps) : StepKey(Steps[i]) # k

\* a file command failed its assertion after an earlier command had changed
\* the disk, with a command declared after it left undone
C6_Witness ==
    /\ JustRan /\ status = "assert"
    /\ Len(Steps) >= 2
    /\ Steps[Len(Steps)].kind = "cmd"
    /\ fs # before.fs
    /\ \E k \in Slots(tree, <<>>) : LexLess(StepKey(Steps[Len(Steps)]), k)

(* C7: THAT_IS_ALL fails exactly when the directory exists on the disk and *)
(* holds a direct entry that is no declared child's path; otherwise it is  *)
(* a no-op (also when the directory does not exist); it never changes the  *)
(* disk.                                                                   *)
C7_ThatIsAll ==
    \A i \in 1..Len(log) :
        (log[i].kind = "scmd" /\ log[i].cmd = "THAT_IS_ALL") =>
            /\ log[i].post = log[i].pre
            /\ log[i].st # "ok" <=>
                  /\ IsDir(log[i].pre, log[i].path)
                  /\ ListDir(log[i].pre, log[i].path)
                         \ Declared(NodeAt(tree, log[i].at)) # {}

(* C8: CREATE has no precondition: on a path whose parent exists it never  *)
(* fails, whatever is at the path (nothing, a file, an empty or a          *)
(* non-empty directory), with confirmation suppressed or given; afterwards *)
(* the path is there fresh, an empty directory or a file.                  *)
C8_CreateAlways ==
    \A i \in 1..Len(log) :
        (/\ log[i].kind = "cmd" /\ log[i].cmd = "CREATE"
         /\ DirOk(log[i].pre, Parent(log[i].path))
         /\ log[i].st # "exit") =>
            /\ log[i].st = "ok"
            /\ Exists(log[i].post, log[i].path)
            /\ ListDir(log[i].post, log[i].path) = {}
            /\ IsDir(log[i].post, log[i].path) <=> IsSeeminglyDir(log[i].path)

(* C9: a list of directory names with a block gives one directory of its   *)
(* own per name: each has the list's command as its own command and the    *)
(* block's entries under its own path; a run that succeeds applies each    *)
(* command of the block once under every directory of the list, and the    *)
(* entries the block creates are then there under each of them.            *)
ListBlock ==
    LET more == {j \in 3..Len(text) : \A k \in 3..j : text[k].sp > text[2].sp}
    IN  [k \in 1..Cardinality(more) |-> text[k + 2]]

IsDirList ==
    /\ tree # NoNode
    /\ Len(text) >= 2
    /\ text[2].kind = "list"
    /\ IsSeeminglyDir(text[2].names[1])
    /\ \A k \in 1..Len(ListBlock) :
           ListBlock[k].kind = "name" /\ ~IsSeeminglyDir(ListBlock[k].names[1])

C9_ListGivesOwnDirectories ==
    IsDirList =>
        \A i \in 1..Len(text[2].names) :
            LET child == tree.list_dir[i]
                own   == tree.main_dir \o text[2].names[i]
            IN  /\ child.kind = "fs"
                /\ tree.list_dir_file_commands[i] = NoCmd
                /\ child.node.main_dir = own
                /\ child.node.main_dir_file_command = text[2].cmd
                /\ Len(child.node.list_dir) = Len(ListBlock)
                /\ \A k \in 1..Len(ListBlock) :
                       /\ child.node.list_dir[k] = PathChild(own \o ListBlock[k].names[1])
                       /\ child.node.list_dir_file_commands[k] = ListBlock[k].cmd
                       /\ (JustRan /\ status = "ok" /\ before.ran = {}
                           /\ ListBlock[k].cmd # NoCmd) =>
                              /\ Cardinality({j \in 1..Len(log) :
                                     /\ log[j].kind = "cmd"
                                     /\ log[j].at = <<i>>
                                     /\ log[j].idx = k
                                     /\ log[j].path = own \o ListBlock[k].names[1]}) = 1
                              /\ ListBlock[k].cmd \in Creating =>
                                     Exists(fs, own \o ListBlock[k].names[1])

\* a run over a list of two directories that made the block's file under both
C9_Witness ==
    /\ IsDirList
    /\ JustRan /\ status = "ok" /\ before.ran = {}
    /\ Len(text[2].names) >= 2
    /\ Len(ListBlock) >= 1
    /\ LET one == tree.main_dir \o text[2].names[1] \o ListBlock[1].names[1]
           two == tree.main_dir \o text[2].names[2] \o ListBlock[1].names[1]
       IN  /\ one # two
           /\ Exists(fs, one) /\ Exists(fs, two)
           /\ ~Exists(before.fs, one) /\ ~Exists(before.fs, two)

(* C10: with confirmation suppressed, every _remove that returns has       *)
(* removed its target, a non-empty directory included (whether called for  *)
(* PRESENT_BUT_REMOVE, PRESENT_BUT_RECREATE, CREATE or                     *)
(* REMOVE_EVERYTHING_ELSE).                                                *)
C10_RemovedWhenSuppressed ==
    \A i \in 1..Len(log) :
        (/\ log[i].kind = "remove"
         /\ log[i].st = "ok"
         /\ ~NodeAt(tree, log[i].at).prompt) => ~Exists(log[i].post, log[i].path)

(* C11: whenever a run reaches the step that creates a Leaf's file (the    *)
(* _absent_but_create of ABSENT_BUT_CREATE, CREATE, CREATE_IF_ABSENT or    *)
(* PRESENT_BUT_RECREATE on a Leaf), the Leaf's parent directory is on the  *)
(* disk, whatever command the parent Directory carries and whatever the    *)
(* disk held at the start.                                                 *)
ReachesCreate(e) ==
    /\ e.kind = "cmd"
    /\ e.idx > 0
    /\ e.cmd \in Creating
    /\ ~IsSeeminglyDir(e.path)
    /\ e.st \in {"ok", "oserror"}
    /\ ~(e.cmd = "CREATE_IF_ABSENT" /\ Exists(e.pre, e.path))

C11_ParentThere ==
    \A i \in 1..Len(log) :
        ReachesCreate(log[i]) => IsDir(log[i].pre, Parent(log[i].path))

(* C13: a FileStructure counts as executed only after a whole run has      *)
(* succeeded: when do() fails an assertion part-way and do() is called     *)
(* again on the same object, no part of the tree counts as executed, and   *)
(* the second call applies again every command declared up to where it     *)
(* ends, those of nested directories the failed run had finished included. *)
Applied == {StepKey(Steps[i]) : i \in 1..Len(Steps)}

\* the node that holds the command at place k
Holder(k) == SubSeq(k, 1, Len(k) - 1)

\* the places the last run came to: all of them when it succeeded, those up
\* to its last step when it failed
CameTo(k) ==
    \/ status = "ok"
    \/ Steps # <<>> /\ ~LexLess(StepKey(Steps[Len(Steps)]), k)

AgainAfterAssert == op = "do" /\ before.status = "assert"

C13_AllAppliedAgain ==
    AgainAfterAssert =>
        \A k \in Slots(tree, <<>>) : CameTo(k) => k \in Applied

\* the positions of the FileStructures of the tree
RECURSIVE NodesOf(_, _)
NodesOf(node, at) ==
    {at} \cup UNION {IF node.list_dir[i].kind = "fs"
                     THEN NodesOf(node.list_dir[i].node, Append(at, i))
                     ELSE {} : i \in 1..Len(node.list_dir)}

\* the nested directory at position r was gone through, to its end, before
\* the step at which the last run failed
FinishedBeforeFailure(r) ==
    /\ Steps # <<>>
    /\ LexLess(r, StepKey(Steps[Len(Steps)]))
    /\ ~IsPrefix(r, StepKey(Steps[Len(Steps)]))

(* C13, as the code has it: every FileStructure of the tree, nested ones   *)
(* included, counts as executed from the end of its own do(): a nested     *)
(* directory that a run finished before it failed an assertion is marked   *)
(* executed, and in a second call after the failure it stays so and none   *)
(* of its commands is applied again, while every other command declared up *)
(* to where the second call ends is applied again.                         *)
C13_FinishedStayExecuted ==
    /\ (JustRan /\ status = "assert") =>
           \A r \in NodesOf(tree, <<>>) : FinishedBeforeFailure(r) => r \in ran
    /\ AgainAfterAssert =>
        /\ before.ran \subseteq ran
        /\ \A i \in 1..Len(Steps) : \A r \in before.ran : ~IsPrefix(r, Steps[i].at)
        /\ \A k \in Slots(tree, <<>>) :
               (CameTo(k) /\ \A r \in before.ran : ~IsPrefix(r, Holder(k))) => k \in Applied

\* a second call after a failed assertion that went through, past a nested
\* directory that the failed run had finished and that holds commands
C13_Witness ==
    /\ AgainAfterAssert
    /\ status = "ok"
    /\ Steps # <<>>
    /\ \E r \in before.ran : \E k \in Slots(tree, <<>>) : IsPrefix(r, Holder(k))

(* C14: when the first run of do() on a freshly built FileStructure whose  *)
(* sibling names are pairwise distinct in every directory ends without a   *)
(* failure or an abort, every declared node whose command is PRESENT,      *)
(* PRESENT_BUT_RECREATE, ABSENT_BUT_CREATE, CREATE or CREATE_IF_ABSENT is  *)
(* on the disk at the end of the run: no later step of the run has removed *)
(* what an earlier step asserted or created.                               *)
Leaving == {"PRESENT"} \cup Creating

\* the declared nodes with their commands: the directory itself, its
\* Leaf children, and those of its nested directories
RECURSIVE Commanded(_)
Commanded(node) ==
    {[path |-> node.main_dir, cmd |-> node.main_dir_file_command]}
    \cup UNION {IF node.list_dir[i].kind = "fs"
                THEN Commanded(node.list_dir[i].node)
                ELSE {[path |-> node.list_dir[i].path,
                       cmd |-> node.list_dir_file_commands[i]]}
                : i \in 1..Len(node.list_dir)}

RECURSIVE DistinctSiblings(_)
DistinctSiblings(node) ==
    /\ \A i, j \in 1..Len(node.list_dir) :
           i # j => node.list_dir[i].path # node.list_dir[j].path
    /\ \A i \in 1..Len(node.list_dir) :
           node.list_dir[i].kind = "fs" => DistinctSiblings(node.list_dir[i].node)

FirstRunDone ==
    /\ JustRan
    /\ status = "ok"
    /\ before.ran = {}
    /\ before.status = "ok"
    /\ DistinctSiblings(tree)

C14_LeftOnDisk ==
    FirstRunDone =>
        \A n \in Commanded(tree) : n.cmd \in Leaving => Exists(fs, n.path)

\* a first run that went through and removed something on its way (an
\* undeclared entry, or what stood at a path it made anew), with a node it
\* made in the main directory and one it made inside a nested directory
C14_Witness ==
    /\ FirstRunDone
    /\ Removes # <<>>
    /\ \E n, m \in Commanded(tree) :
          /\ n.cmd \in Creating /\ m.cmd \in Creating
          /\ Len(n.path) = 2 /\ Len(m.path) = 3
          /\ ~Exists(before.fs, n.path) /\ ~Exists(before.fs, m.path)

(* C12: parsing fails for every text in which some line's depth (leading   *)
(* spaces less those of line 1) is not a positive multiple of the indent   *)
(* unit fixed by lines 1 and 2, or in which a line's depth in units is     *)
(* more than one above the previous line's after a directory line, or      *)
(* above it at all after a line of an ordinary file; at every nesting      *)
(* level, the lines taken into a directory's block and parsed by the       *)
(* nested FileStructure included.                                          *)
Depth(lines, i) == lines[i].sp - lines[1].sp

DirLine(line) == line.kind \in {"name", "list"} /\ IsSeeminglyDir(line.names[1])

WellIndented(lines) ==
    LET unit == Depth(lines, 2)
    IN  /\ unit > 0
        /\ \A i \in 2..Len(lines) :
               /\ Depth(lines, i) > 0
               /\ Depth(lines, i) % unit = 0
               /\ i > 2 =>
                      Depth(lines, i) \div unit <=
                          Depth(lines, i - 1) \div unit
                              + (IF DirLine(lines[i - 1]) THEN 1 ELSE 0)

ParseFailed == phase = "raised" /\ tree = NoNode

C12_BadIndentFails ==
    (phase # "new" /\ Len(text) >= 2 /\ ~WellIndented(text)) => ParseFailed

====
